---- MODULE Spec2Model ----
(***************************************************************************)
(* A model of src/LoRa.py: the CanSat_LoRa session over a pyserial         *)
(* transport.  Bytes are integers 0..255, text is a sequence of code        *)
(* points, a raw line is its bytes followed by CR LF.                       *)
(***************************************************************************)
EXTENDS Integers, Sequences, FiniteSets, TLC

\* ------------------------------------------------------------------ bounds

NumPorts == 2
MaxHandles == 2
MaxLate == 1
MaxLines == 2
MaxReads == 3
EdgeMargin == 1
MaxPayload == 1

Ports == 1..NumPorts

\* ------------------------------------------------------------ text helpers

\* A failed conversion (a Python exception) is ok = FALSE with the exception's name.
Ok(v) == [ok |-> TRUE, val |-> v, exc |-> "none"]
Err(e) == [ok |-> FALSE, val |-> <<>>, exc |-> e]

IsCont(b) == b >= 128 /\ b <= 191

\* The length of the longest prefix of b that is ASCII.
AsciiRun(b) ==
  LET high == {i \in 1..Len(b) : b[i] > 127}
  IN IF high = {} THEN Len(b)
     ELSE (CHOOSE i \in high : \A j \in high : i <= j) - 1

\* bytes.decode(): strict UTF-8.  A run of ASCII bytes decodes to itself; after
\* it, one multi-byte code point at a time.
RECURSIVE Utf8Decode(_)
Utf8Decode(b) ==
  IF AsciiRun(b) = Len(b) THEN Ok(b)
  ELSE LET run == AsciiRun(b)
           n == Len(b) - run
           c == SubSeq(b, run + 1, Len(b))
           b1 == c[1]
           need == IF b1 >= 194 /\ b1 <= 223 THEN 2
                   ELSE IF b1 >= 224 /\ b1 <= 239 THEN 3
                   ELSE IF b1 >= 240 /\ b1 <= 244 THEN 4
                   ELSE 0
       IN IF need = 0 \/ n < need THEN Err("UnicodeDecodeError")
          ELSE LET good ==
                     /\ \A k \in 2..need : IsCont(c[k])
                     /\ (b1 = 224 => c[2] >= 160)
                     /\ (b1 = 237 => c[2] <= 159)
                     /\ (b1 = 240 => c[2] >= 144)
                     /\ (b1 = 244 => c[2] <= 143)
                   cp == IF need = 2 THEN (b1 - 192) * 64 + (c[2] - 128)
                         ELSE IF need = 3
                           THEN (b1 - 224) * 4096 + (c[2] - 128) * 64 + (c[3] - 128)
                         ELSE (b1 - 240) * 262144 + (c[2] - 128) * 4096
                              + (c[3] - 128) * 64 + (c[4] - 128)
                   rest == Utf8Decode(SubSeq(c, need + 1, n))
               IN IF ~good THEN Err("UnicodeDecodeError")
                  ELSE IF ~rest.ok THEN rest
                  ELSE Ok(SubSeq(b, 1, run) \o <<cp>> \o rest.val)

\* The code points str.strip() removes (those that occur below U+0100).
IsSpace(c) == c \in {9, 10, 11, 12, 13, 28, 29, 30, 31, 32, 133, 160}

RECURSIVE LStrip(_)
LStrip(s) == IF s # <<>> /\ IsSpace(s[1]) THEN LStrip(Tail(s)) ELSE s

RECURSIVE RStrip(_)
RStrip(s) ==
  IF s # <<>> /\ IsSpace(s[Len(s)]) THEN RStrip(SubSeq(s, 1, Len(s) - 1)) ELSE s

\* str.strip()
Strip(s) == RStrip(LStrip(s))

\* str.startswith(p)
StartsWith(s, p) == Len(s) >= Len(p) /\ SubSeq(s, 1, Len(p)) = p

\* p in s
Contains(s, p) ==
  \E i \in 1..(Len(s) - Len(p) + 1) : SubSeq(s, i, i + Len(p) - 1) = p

\* str.split(" "): the fields between single spaces, empty fields kept.
Split(s) ==
  LET spaces == {i \in 1..Len(s) : s[i] = 32}
      n == Cardinality(spaces)
      \* the position of the k-th space; 0 and Len(s) + 1 bound the text
      pos(k) == IF k = 0 THEN 0
                ELSE IF k = n + 1 THEN Len(s) + 1
                ELSE CHOOSE i \in spaces : Cardinality({j \in spaces : j <= i}) = k
  IN [k \in 1..(n + 1) |-> SubSeq(s, pos(k - 1) + 1, pos(k) - 1)]

IsHexDigit(c) ==
  (c >= 48 /\ c <= 57) \/ (c >= 97 /\ c <= 102) \/ (c >= 65 /\ c <= 70)

HexVal(c) == IF c <= 57 THEN c - 48 ELSE IF c >= 97 THEN c - 87 ELSE c - 55

\* bytes.fromhex(): pairs of hex digits, ASCII whitespace between pairs skipped.
RECURSIVE FromHex(_)
FromHex(s) ==
  IF s = <<>> THEN Ok(<<>>)
  ELSE IF s[1] \in {9, 10, 11, 12, 13, 32} THEN FromHex(Tail(s))
  ELSE IF Len(s) >= 2 /\ IsHexDigit(s[1]) /\ IsHexDigit(s[2])
    THEN LET rest == FromHex(SubSeq(s, 3, Len(s)))
         IN IF rest.ok THEN Ok(<<HexVal(s[1]) * 16 + HexVal(s[2])>> \o rest.val)
            ELSE rest
  ELSE Err("ValueError")

RECURSIVE Flatten(_)
Flatten(ss) == IF ss = <<>> THEN <<>> ELSE Head(ss) \o Flatten(Tail(ss))

\* sorted(): insertion sort of the enumerated ports.
RECURSIVE Insert(_, _)
Insert(x, s) ==
  IF s = <<>> THEN <<x>>
  ELSE IF x <= Head(s) THEN <<x>> \o s
  ELSE <<Head(s)>> \o Insert(x, Tail(s))

RECURSIVE Sorted(_)
Sorted(s) == IF s = <<>> THEN <<>> ELSE Insert(Head(s), Sorted(Tail(s)))

\* ------------------------------------------------------- wire vocabulary

CRLF == <<13, 10>>

\* "radio_rx", the receive-event prefix
RADIO_RX == <<114, 97, 100, 105, 111, 95, 114, 120>>

\* "WLR089", the hardware identifier
WLR089 == <<87, 76, 82, 48, 56, 57>>

\* Raw lines a device puts on the wire.
\* "WLR089U0 1.0" : the module's version string
LineVersion == WLR089 \o <<85, 48, 32, 49, 46, 48>> \o CRLF
\* "RN2483 1.0" : another device's version string
LineOther == <<82, 78, 50, 52, 56, 51, 32, 49, 46, 48>> \o CRLF
\* a byte that is no UTF-8 (a device at another baud rate)
LineGarbage == <<255>> \o CRLF
\* "ok"
LineOk == <<111, 107>> \o CRLF
\* "radio_err" : the module's watchdog report
LineRadioErr == <<114, 97, 100, 105, 111, 95, 101, 114, 114>> \o CRLF
\* "radio_rx 4869" : a packet carrying "Hi"
LinePacketHi == RADIO_RX \o <<32, 52, 56, 54, 57>> \o CRLF
\* "radio_rx ff" : a packet carrying the byte 0xff
LinePacketFF == RADIO_RX \o <<32, 102, 102>> \o CRLF

PacketLines == {LinePacketHi, LinePacketFF}

\* ------------------------------------------------------------------ state

None == 0

VARIABLES
  serial,          \* self.serial: None, or the handle (Serial object) it references
  hport,           \* hport[h]: the port of handle h, for every handle ever constructed
  live,            \* the handles that are open
  rxbuf,           \* the input buffer of the port self.serial is bound to: raw lines
  late,            \* replies the device on that port sends later than the settle
                   \* delay: raw lines, in order
  pc,              \* the caller's position: "idle", "find_and_open", "rx"
  ports,           \* find_and_open: the sorted candidates
  idx,             \* find_and_open: index of the next candidate
  probes,          \* find_and_open: what happened to each candidate so far
  last,            \* the last call that ended, see Done
  modRx,           \* the module is in continuous reception
  delivered,       \* radio_continous_reception: the callback's arguments, in order
  linesRead,       \* radio_continous_reception: the non-empty lines readline returned
  readsAfterExit   \* radio_continous_reception: reads that returned after the
                   \* module left continuous reception

vars == <<serial, hport, live, rxbuf, late, pc, ports, idx, probes, last, modRx,
          delivered, linesRead, readsAfterExit>>

sessionVars == <<serial, hport, live>>
faoVars == <<ports, idx, probes>>
rxVars == <<delivered, linesRead, readsAfterExit>>

\* The Session is Open: it references a handle and that handle is open.
SessionOpen == serial # None /\ serial \in live

\* A call that ended: the method, its arguments (see Called), the
\* exception it raised ("none": it returned),
\* the text it returned, the command lines it wrote, whether it was made while the
\* receive loop was running, and the buffered lines its read_all took that were
\* there before it wrote.
Done(op, exc, ret, wrote, took) ==
  [op |-> op, args |-> <<>>, exc |-> exc, ret |-> ret, wrote |-> wrote,
   rx |-> pc = "rx", took |-> took]

\* __init__
Init ==
  /\ serial = None
  /\ hport = <<>>
  /\ live = {}
  /\ rxbuf = <<>>
  /\ late = <<>>
  /\ pc = "idle"
  /\ ports = <<>>
  /\ idx = 1
  /\ probes = <<>>
  /\ last = Done("__init__", "none", <<>>, <<>>, <<>>)
  /\ modRx = FALSE
  /\ delivered = <<>>
  /\ linesRead = <<>>
  /\ readsAfterExit = 0

\* The locals of find_and_open and the record of the last reception are those of
\* the last such call: the caller's next call starts with them cleared.
ForgetFao == ports' = <<>> /\ idx' = 1 /\ probes' = <<>>
ForgetRx ==
  IF pc = "rx" THEN UNCHANGED rxVars
  ELSE delivered' = <<>> /\ linesRead' = <<>> /\ readsAfterExit' = 0

\* ----------------------------------------------------------- the devices

\* What the device on the other end does with one command line: the write fails,
\* or it replies with a line (<<>>: with nothing) within the settle delay or later.
Replies(command) ==
  IF command = "sys get ver" THEN {LineVersion, LineOther, LineGarbage, <<>>}
  ELSE {LineOk, <<>>}

NoDevice == [fail |-> TRUE, reply |-> <<>>, intime |-> TRUE]

Devices(command) ==
  {NoDevice}
  \cup {[fail |-> FALSE, reply |-> r, intime |-> TRUE] : r \in Replies(command)}
  \cup {[fail |-> FALSE, reply |-> r, intime |-> FALSE] :
          r \in {x \in Replies(command) : x # <<>> /\ Len(late) < MaxLate}}

\* -------------------------------------------------------------- send_command

\* send_command on a session whose self.serial is sr, with open handles lv and
\* input buffer buf: the exception raised or the text returned, the line
\* written, what is left in the buffer and what the device sends late.
send_command(sr, lv, buf, command, dev) ==
  IF sr = None
    THEN [exc |-> "AttributeError", ret |-> <<>>, wrote |-> <<>>,
          buf |-> buf, late |-> <<>>, took |-> <<>>]
  ELSE IF sr \notin lv
    THEN [exc |-> "PortNotOpenError", ret |-> <<>>, wrote |-> <<>>,
          buf |-> buf, late |-> <<>>, took |-> <<>>]
  ELSE IF dev.fail
    THEN [exc |-> "SerialException", ret |-> <<>>, wrote |-> <<>>,
          buf |-> buf, late |-> <<>>, took |-> <<>>]
  ELSE LET arrived == IF dev.reply # <<>> /\ dev.intime
                        THEN Append(buf, dev.reply) ELSE buf
           text == Utf8Decode(Flatten(arrived))
       IN [exc |-> text.exc,
           ret |-> IF text.ok THEN Strip(text.val) ELSE <<>>,
           wrote |-> <<command>>,
           buf |-> <<>>,
           late |-> IF dev.reply # <<>> /\ ~dev.intime
                      THEN <<dev.reply>> ELSE <<>>,
           took |-> buf]

\* ------------------------------------------------------------ open, close

\* open(port): serial.Serial(port, baudrate, timeout=0.5) raises SerialException
\* or constructs a handle, which opens the port and resets its input buffer;
\* the handle self.serial referenced before is dropped as it is.
open(p) ==
  /\ pc = "idle"
  /\ \E opened \in BOOLEAN :
       /\ opened => Len(hport) < MaxHandles
       /\ IF opened
            THEN /\ serial' = Len(hport) + 1
                 /\ hport' = Append(hport, p)
                 /\ live' = live \cup {Len(hport) + 1}
                 /\ rxbuf' = <<>>
                 /\ late' = <<>>
                 /\ modRx' = FALSE
                 /\ last' = Done("open", "none", <<>>, <<>>, <<>>)
            ELSE /\ last' = Done("open", "SerialException", <<>>, <<>>, <<>>)
                 /\ UNCHANGED <<sessionVars, rxbuf, late, modRx>>
  /\ ForgetFao
  /\ ForgetRx
  /\ UNCHANGED pc

\* close(): self.serial.close(); self.serial keeps referencing the handle.
close ==
  /\ pc \in {"idle", "rx"}
  /\ IF serial = None
       THEN /\ last' = Done("close", "AttributeError", <<>>, <<>>, <<>>)
            /\ UNCHANGED <<live, rxbuf, late, modRx>>
       ELSE /\ live' = live \ {serial}
            /\ rxbuf' = <<>>
            /\ late' = <<>>
            /\ modRx' = FALSE
            /\ last' = Done("close", "none", <<>>, <<>>, <<>>)
  /\ ForgetFao
  /\ ForgetRx
  /\ UNCHANGED <<serial, hport, pc>>

\* The garbage collector finalizes a handle nothing references: it is closed.
Finalize(h) ==
  /\ h \in live
  /\ h # serial
  /\ live' = live \ {h}
  /\ UNCHANGED <<serial, hport, rxbuf, late, pc, faoVars, last, modRx, rxVars>>

\* ------------------------------------------------------------ the commands

\* The methods that take no parameter and send one command line.
CommandLine(m) ==
  CASE m = "sys_reset" -> "sys reset"
    [] m = "sys_factory_reset" -> "sys factoryRESET"
    [] m = "sys_get_version" -> "sys get ver"
    [] m = "radio_get_paboost" -> "radio get pa"
    [] m = "radio_get_crc" -> "radio get crc"
    [] m = "radio_get_modulation" -> "radio get mod"
    [] m = "radio_get_frequency" -> "radio get freq"
    [] m = "radio_get_power" -> "radio get pwr"
    [] m = "radio_stop_reception" -> "radio rxstop"
    [] m = "radio_get_signal_noise_ratio" -> "radio get snr"
    [] m = "radio_get_packet_rssi" -> "radio get pktrssi"
    [] m = "get_listen_before_talk" -> "radio get lbt"
    [] m = "radio_continous_reception" -> "radio rx 0"

\* The methods the model calls: a getter and the stop.
Methods == {"sys_get_version", "radio_stop_reception"}

\* What the device does matters only to a command that reaches it.
DevicesNow(sr, lv, command) ==
  IF sr # None /\ sr \in lv THEN Devices(command) ELSE {NoDevice}

\* A call of one of the methods, by the caller or from the packet callback.
call(m) ==
  /\ pc \in {"idle", "rx"}
  /\ \E dev \in DevicesNow(serial, live, CommandLine(m)) :
       \E r \in {send_command(serial, live, rxbuf, CommandLine(m), dev)} :
          /\ rxbuf' = r.buf
          /\ late' = late \o r.late
          /\ last' = Done(m, r.exc, r.ret, r.wrote, r.took)
          /\ modRx' = IF r.wrote # <<>> /\ m = "radio_stop_reception"
                        THEN FALSE ELSE modRx
  /\ ForgetFao
  /\ ForgetRx
  /\ UNCHANGED <<sessionVars, pc>>

\* radio_get_frequency_mhz calls self.get_radio_frequency(), which the class
\* does not define.
radio_get_frequency_mhz ==
  /\ pc \in {"idle", "rx"}
  /\ last' = Done("radio_get_frequency_mhz", "AttributeError", <<>>, <<>>, <<>>)
  /\ ForgetFao
  /\ ForgetRx
  /\ UNCHANGED <<sessionVars, rxbuf, late, pc, modRx>>

\* ------------------------------------------------------------ find_and_open

\* serial.tools.list_ports.comports(): the ports present, in any order.
RECURSIVE Enumerations(_)
Enumerations(S) ==
  IF S = {} THEN {<<>>}
  ELSE UNION {{<<x>> \o c : c \in Enumerations(S \ {x})} : x \in S}

\* get_ports()
get_ports(c) == Sorted(c)

\* "WLR089" in ver
Accepts(ver) == Contains(ver, WLR089)

\* What happened to one candidate: its port, the handle opened on it (None: the
\* open failed), how the iteration ended, and the handles of earlier candidates
\* that were open when this one was opened.
Probe(port, h, outcome) ==
  [port |-> port, h |-> h, outcome |-> outcome,
   others |-> IF h = None THEN {}
              ELSE live \cap {probes[i].h : i \in 1..Len(probes)}]

\* ports = self.get_ports()
find_and_open_enter ==
  /\ pc = "idle"
  /\ \E S \in SUBSET Ports : \E c \in Enumerations(S) : ports' = get_ports(c)
  /\ idx' = 1
  /\ probes' = <<>>
  /\ pc' = "find_and_open"
  /\ ForgetRx
  /\ UNCHANGED <<sessionVars, rxbuf, late, last, modRx>>

\* One iteration of the loop over the candidates.
find_and_open_probe ==
  /\ pc = "find_and_open"
  /\ idx <= Len(ports)
  /\ \E opened \in BOOLEAN :
       /\ opened => Len(hport) < MaxHandles
       /\ IF ~opened
            THEN \* self.open raised SerialException: except ... pass
                 /\ idx' = idx + 1
                 /\ probes' = Append(probes, Probe(ports[idx], None, "open failed"))
                 /\ UNCHANGED <<sessionVars, rxbuf, late, pc, last, modRx>>
            ELSE \E dev \in Devices("sys get ver") :
                 \E h \in {Len(hport) + 1} :
                 \E r \in {send_command(h, live \cup {h}, <<>>, "sys get ver", dev)} :
                    /\ hport' = Append(hport, ports[idx])
                    /\ modRx' = FALSE
                    /\ rxbuf' = r.buf
                    /\ late' = r.late
                    /\ IF r.exc = "SerialException"
                         THEN \* sys_get_version raised: except ... pass
                              /\ serial' = h
                              /\ live' = live \cup {h}
                              /\ idx' = idx + 1
                              /\ probes' = Append(probes, Probe(ports[idx], h, "error"))
                              /\ UNCHANGED <<pc, last>>
                       ELSE IF r.exc # "none"
                         THEN \* any other exception leaves find_and_open
                              /\ serial' = h
                              /\ live' = live \cup {h}
                              /\ probes' = Append(probes, Probe(ports[idx], h, "raised"))
                              /\ pc' = "idle"
                              /\ last' = Done("find_and_open", r.exc, <<>>, <<>>, <<>>)
                              /\ UNCHANGED idx
                       ELSE IF Accepts(r.ret)
                         THEN \* return
                              /\ serial' = h
                              /\ live' = live \cup {h}
                              /\ probes' = Append(probes, Probe(ports[idx], h, "accepted"))
                              /\ pc' = "idle"
                              /\ last' = Done("find_and_open", "none", <<>>, <<>>, <<>>)
                              /\ UNCHANGED idx
                         ELSE \* self.close(); self.serial = None; continue
                              /\ serial' = None
                              /\ live' = live
                              /\ idx' = idx + 1
                              /\ probes' = Append(probes, Probe(ports[idx], h, "rejected"))
                              /\ UNCHANGED <<pc, last>>
  /\ UNCHANGED <<ports, rxVars>>

\* After the loop: if self.serial is None: raise SerialException("No LoRa module found.")
find_and_open_exit ==
  /\ pc = "find_and_open"
  /\ idx > Len(ports)
  /\ pc' = "idle"
  /\ last' = Done("find_and_open",
                  IF serial = None THEN "NoLoRaModuleFound" ELSE "none",
                  <<>>, <<>>, <<>>)
  /\ UNCHANGED <<sessionVars, rxbuf, late, faoVars, modRx, rxVars>>

\* ------------------------------------------------- radio_continous_reception

\* self.send_command("radio rx 0"), then the loop is entered.
radio_continous_reception_enter ==
  /\ pc = "idle"
  /\ \E dev \in DevicesNow(serial, live, "radio rx 0") :
       \E r \in {send_command(serial, live, rxbuf, "radio rx 0", dev)} :
          /\ rxbuf' = r.buf
          /\ late' = late \o r.late
          /\ modRx' = IF r.wrote # <<>> THEN TRUE ELSE modRx
          /\ last' = Done("radio_continous_reception", r.exc, <<>>, r.wrote, r.took)
          /\ pc' = IF r.exc = "none" THEN "rx" ELSE "idle"
  /\ delivered' = <<>>
  /\ linesRead' = <<>>
  /\ readsAfterExit' = 0
  /\ ForgetFao
  /\ UNCHANGED sessionVars

\* The body of the loop on what readline returned: the exception raised, or
\* whether the callback is called and with what.
rx_line(raw) ==
  LET text == Utf8Decode(raw)
      response == Strip(text.val)
      fields == Split(response)
      hex == FromHex(fields[2])
      data == Utf8Decode(hex.val)
  IN IF ~text.ok THEN [exc |-> text.exc, cb |-> FALSE, data |-> <<>>]
     ELSE IF ~StartsWith(response, RADIO_RX)
       THEN [exc |-> "none", cb |-> FALSE, data |-> <<>>]
     ELSE IF Len(fields) < 2 THEN [exc |-> "IndexError", cb |-> FALSE, data |-> <<>>]
     ELSE IF ~hex.ok THEN [exc |-> hex.exc, cb |-> FALSE, data |-> <<>>]
     ELSE IF ~data.ok THEN [exc |-> data.exc, cb |-> FALSE, data |-> <<>>]
     ELSE [exc |-> "none", cb |-> TRUE, data |-> data.val]

\* One iteration of while True: readline returns the next buffered line, or
\* nothing after the 0.5 s timeout.
radio_continous_reception_read ==
  /\ pc = "rx"
  /\ IF serial \notin live
       THEN \* the port was closed meanwhile: readline raises
            /\ pc' = "idle"
            /\ last' = Done("radio_continous_reception", "PortNotOpenError",
                            <<>>, <<>>, <<>>)
            /\ UNCHANGED <<rxbuf, rxVars>>
       ELSE \E raw \in {IF rxbuf = <<>> THEN <<>> ELSE Head(rxbuf)} :
            \E r \in {rx_line(raw)} :
               /\ rxbuf' = IF rxbuf = <<>> THEN rxbuf ELSE Tail(rxbuf)
               /\ linesRead' = IF raw = <<>> THEN linesRead ELSE Append(linesRead, raw)
               /\ readsAfterExit' = IF modRx \/ readsAfterExit = MaxReads
                                      THEN readsAfterExit ELSE readsAfterExit + 1
               /\ delivered' = IF r.cb THEN Append(delivered, r.data) ELSE delivered
               /\ IF r.exc = "none"
                    THEN UNCHANGED <<pc, last>>
                    ELSE /\ pc' = "idle"
                         /\ last' = Done("radio_continous_reception", r.exc,
                                         <<>>, <<>>, <<>>)
  /\ UNCHANGED <<sessionVars, late, faoVars, modRx>>

\* ------------------------------------------------------------- the module

\* The bound on the lines a device puts in the input buffer.
RoomForLine == Len(linesRead) + Len(rxbuf) < MaxLines

\* A reply that missed the settle delay reaches the port's input buffer.
LateArrive ==
  /\ late # <<>>
  /\ RoomForLine
  /\ late' = Tail(late)
  /\ SessionOpen
  /\ rxbuf' = Append(rxbuf, Head(late))
  /\ UNCHANGED <<sessionVars, pc, faoVars, last, modRx, rxVars>>

\* In continuous reception the module receives a valid packet, reports it and
\* leaves continuous reception.
ModulePacket(line) ==
  /\ modRx
  /\ SessionOpen
  /\ RoomForLine
  /\ rxbuf' = Append(rxbuf, line)
  /\ modRx' = FALSE
  /\ UNCHANGED <<sessionVars, late, pc, faoVars, last, rxVars>>

\* The module's watchdog timer expires: it reports radio_err and leaves
\* continuous reception.
ModuleWatchdog ==
  /\ modRx
  /\ SessionOpen
  /\ RoomForLine
  /\ rxbuf' = Append(rxbuf, LineRadioErr)
  /\ modRx' = FALSE
  /\ UNCHANGED <<sessionVars, late, pc, faoVars, last, rxVars>>

\* ------------------------------------------- the commands with parameters

\* Text a caller passes or a command line holds, as code points.
\* "standby", "backup", "hibernate"
STANDBY == <<115, 116, 97, 110, 100, 98, 121>>
BACKUP == <<98, 97, 99, 107, 117, 112>>
HIBERNATE == <<104, 105, 98, 101, 114, 110, 97, 116, 101>>
\* "on", "off", "ON", "true", ""
ON == <<111, 110>>
OFF == <<111, 102, 102>>
ON_UPPER == <<79, 78>>
TRUE_TEXT == <<116, 114, 117, 101>>
EMPTY_TEXT == <<>>
\* "lora", "fsk", "ook"
LORA == <<108, 111, 114, 97>>
FSK == <<102, 115, 107>>
OOK == <<111, 111, 107>>
\* str(True), str(False)
PY_TRUE == <<84, 114, 117, 101>>
PY_FALSE == <<70, 97, 108, 115, 101>>

\* The fixed words of the command lines.
\* "sys sleep"
SYS_SLEEP == <<115, 121, 115, 32, 115, 108, 101, 101, 112>>
\* "radio set freq"
RADIO_SET_FREQ == <<114, 97, 100, 105, 111, 32, 115, 101, 116, 32, 102, 114, 101, 113>>
\* "radio set pa"
RADIO_SET_PA == <<114, 97, 100, 105, 111, 32, 115, 101, 116, 32, 112, 97>>
\* "radio set pwr"
RADIO_SET_PWR == <<114, 97, 100, 105, 111, 32, 115, 101, 116, 32, 112, 119, 114>>
\* "radio set mod"
RADIO_SET_MOD == <<114, 97, 100, 105, 111, 32, 115, 101, 116, 32, 109, 111, 100>>
\* "radio set crc"
RADIO_SET_CRC == <<114, 97, 100, 105, 111, 32, 115, 101, 116, 32, 99, 114, 99>>
\* "radio cw"
RADIO_CW == <<114, 97, 100, 105, 111, 32, 99, 119>>
\* "radio set lbt"
RADIO_SET_LBT == <<114, 97, 100, 105, 111, 32, 115, 101, 116, 32, 108, 98, 116>>
\* "radio tx"
RADIO_TX == <<114, 97, 100, 105, 111, 32, 116, 120>>

\* The numbers the validators compare with.
MIN_SLEEP == 1000
BAND1_LO == 137000000
BAND1_HI == 175000000
BAND2_LO == 410000000
BAND2_HI == 525000000
BAND3_LO == 862000000
BAND3_HI == 1020000000
MIN_POWER == -4
MAX_POWER == 20

BandEdges == {BAND1_LO, BAND1_HI, BAND2_LO, BAND2_HI, BAND3_LO, BAND3_HI}

\* An argument is recorded as a sequence of numbers: a text as its code points,
\* an int n as <<n>>, and a value whose text depends on its type as the pair of
\* its type (0: int, 1: bool) and its value.
IntArg(n) == <<n>>
PyInt(n) == <<0, n>>
PyBool(b) == <<1, IF b THEN 1 ELSE 0>>

\* str(n) of a non-negative int
RECURSIVE Digits(_)
Digits(n) == IF n < 10 THEN <<48 + n>> ELSE Digits(n \div 10) \o <<48 + (n % 10)>>

\* f"{n}" of an int
Decimal(n) == IF n < 0 THEN <<45>> \o Digits(-n) ELSE Digits(n)

\* f"{x}" of an int or a bool
Format(x) ==
  IF x[1] = 1 THEN (IF x[2] = 1 THEN PY_TRUE ELSE PY_FALSE) ELSE Decimal(x[2])

\* One lowercase hex digit.
HexDigit(d) == IF d < 10 THEN 48 + d ELSE 87 + d

RECURSIVE HexDigits(_)
HexDigits(n) ==
  IF n < 16 THEN <<HexDigit(n)>> ELSE HexDigits(n \div 16) \o <<HexDigit(n % 16)>>

\* f"{ord(c):02x}": lowercase hex of the code point, at least two digits.
Hex02(c) == IF c < 16 THEN <<48>> \o HexDigits(c) ELSE HexDigits(c)

\* "".join(f"{ord(c):02x}" for c in data)
RECURSIVE HexJoin(_)
HexJoin(data) == IF data = <<>> THEN <<>> ELSE Hex02(Head(data)) \o HexJoin(Tail(data))

\* The fields of an f-string, a space between them.
RECURSIVE Spaced(_)
Spaced(fields) ==
  IF Len(fields) = 1 THEN fields[1]
  ELSE fields[1] \o <<32>> \o Spaced(Tail(fields))

\* A call that ended, with the arguments it was given (see Done).
Called(op, args, exc, ret, wrote, took) ==
  [Done(op, exc, ret, wrote, took) EXCEPT !.args = args]

\* A variant of Raise for a method that checks its parameters only after it has
\* sent the line.
RaiseAfterSend(op, args, exc) ==
  /\ pc \in {"idle", "rx"}
  /\ last' = Called(op, args, exc, <<>>, <<args[1]>>, rxbuf)
  /\ rxbuf' = <<>>
  /\ ForgetFao
  /\ ForgetRx
  /\ UNCHANGED <<sessionVars, late, pc, modRx>>

\* The method raises before it reaches send_command.
Raise(op, args, exc) ==
  /\ pc \in {"idle", "rx"}
  /\ last' = Called(op, args, exc, <<>>, <<>>, <<>>)
  /\ ForgetFao
  /\ ForgetRx
  /\ UNCHANGED <<sessionVars, rxbuf, late, pc, modRx>>

\* return self.send_command(line); words names the command to the device.
ReturnSendCommand(op, args, words, line) ==
  /\ pc \in {"idle", "rx"}
  /\ \E dev \in DevicesNow(serial, live, words) :
       \E r \in {send_command(serial, live, rxbuf, line, dev)} :
          /\ rxbuf' = r.buf
          /\ late' = late \o r.late
          /\ last' = Called(op, args, r.exc, r.ret, r.wrote, r.took)
  /\ ForgetFao
  /\ ForgetRx
  /\ UNCHANGED <<sessionVars, pc, modRx>>

\* A variant of sys_sleep_raises that also refuses the minimum duration.
sys_sleep_raises_strict(mode, duration) ==
  mode \notin {STANDBY, BACKUP} \/ duration <= MIN_SLEEP

\* sys_sleep: mode not in ["standby", "backup"], then duration < 1000
sys_sleep_raises(mode, duration) == mode \notin {STANDBY, BACKUP} \/ duration < MIN_SLEEP

sys_sleep(mode, duration) ==
  IF sys_sleep_raises(mode, duration)
    THEN Raise("sys_sleep", <<mode, IntArg(duration)>>, "ValueError")
    ELSE ReturnSendCommand("sys_sleep", <<mode, IntArg(duration)>>, "sys sleep",
                           Spaced(<<SYS_SLEEP, mode, Decimal(duration)>>))

\* A variant of radio_set_frequency_raises that also refuses the band edges.
radio_set_frequency_raises_strict(frequency) ==
  /\ (frequency <= BAND1_LO \/ frequency >= BAND1_HI)
  /\ (frequency <= BAND2_LO \/ frequency >= BAND2_HI)
  /\ (frequency <= BAND3_LO \/ frequency >= BAND3_HI)

\* radio_set_frequency: the frequency lies outside all three bands
radio_set_frequency_raises(frequency) ==
  /\ (frequency < BAND1_LO \/ frequency > BAND1_HI)
  /\ (frequency < BAND2_LO \/ frequency > BAND2_HI)
  /\ (frequency < BAND3_LO \/ frequency > BAND3_HI)

\* f"radio set freq {frequency}"
radio_set_frequency_line(frequency) == Spaced(<<RADIO_SET_FREQ, Decimal(frequency)>>)

\* The body of radio_set_frequency, called as op with arguments args.
SetFrequency(op, args, frequency) ==
  IF radio_set_frequency_raises(frequency)
    THEN Raise(op, args, "ValueError")
    ELSE ReturnSendCommand(op, args, "radio set freq", radio_set_frequency_line(frequency))

radio_set_frequency(frequency) ==
  SetFrequency("radio_set_frequency", <<IntArg(frequency)>>, frequency)

\* A variant of ToHz that rounds to the nearest Hz.
ToHzRounded(twice) == (twice + 1) \div 2

\* int(frequency_mhz * 1_000_000) of a frequency_mhz given by twice its value in
\* Hz (so that half a Hz can be told): the product, truncated towards zero.
ToHz(twice) == IF twice >= 0 THEN twice \div 2 ELSE -((-twice) \div 2)

radio_set_frequency_mhz(twice) ==
  SetFrequency("radio_set_frequency_mhz", <<IntArg(twice)>>, ToHz(twice))

radio_set_paboost(state) ==
  IF state \notin {ON, OFF}
    THEN Raise("radio_set_paboost", <<state>>, "ValueError")
    ELSE ReturnSendCommand("radio_set_paboost", <<state>>, "radio set pa",
                           Spaced(<<RADIO_SET_PA, state>>))

radio_set_power(power) ==
  IF power < MIN_POWER \/ power > MAX_POWER
    THEN Raise("radio_set_power", <<IntArg(power)>>, "ValueError")
    ELSE ReturnSendCommand("radio_set_power", <<IntArg(power)>>, "radio set pwr",
                           Spaced(<<RADIO_SET_PWR, Decimal(power)>>))

radio_set_modulation(mode) ==
  IF mode \notin {LORA, FSK}
    THEN Raise("radio_set_modulation", <<mode>>, "ValueError")
    ELSE ReturnSendCommand("radio_set_modulation", <<mode>>, "radio set mod",
                           Spaced(<<RADIO_SET_MOD, mode>>))

\* radio_set_crc sends whatever state it is given.
radio_set_crc(state) ==
  ReturnSendCommand("radio_set_crc", <<state>>, "radio set crc",
                    Spaced(<<RADIO_SET_CRC, state>>))

radio_set_cw(state) ==
  IF state \notin {ON, OFF}
    THEN Raise("radio_set_cw", <<state>>, "ValueError")
    ELSE ReturnSendCommand("radio_set_cw", <<state>>, "radio cw",
                           Spaced(<<RADIO_CW, state>>))

\* set_listen_before_talk formats its four arguments as they are.
set_listen_before_talk(scan_period, threshold, num_of_samples, transmit_on) ==
  ReturnSendCommand("set_listen_before_talk",
                    <<IntArg(scan_period), IntArg(threshold), IntArg(num_of_samples),
                      transmit_on>>,
                    "radio set lbt",
                    Spaced(<<RADIO_SET_LBT, Decimal(scan_period), Decimal(threshold),
                             Decimal(num_of_samples), Format(transmit_on)>>))

\* radio_transmit: the hex of the code points of data, then count.
radio_transmit(data, count) ==
  ReturnSendCommand("radio_transmit", <<data, IntArg(count)>>, "radio tx",
                    Spaced(<<RADIO_TX, HexJoin(data), Decimal(count)>>))

\* The arguments the callers of the model pass.
Modes == {STANDBY, BACKUP, HIBERNATE}
Durations == ((MIN_SLEEP - EdgeMargin)..(MIN_SLEEP + EdgeMargin)) \cup {0, 5000}
Frequencies ==
  UNION {(e - EdgeMargin)..(e + EdgeMargin) : e \in BandEdges} \cup {0, 868350000}
\* twice the value in Hz: 868.35 MHz, the edges and half a Hz around them
FrequenciesMhz ==
  UNION {(2 * e - EdgeMargin - 1)..(2 * e + EdgeMargin + 1) : e \in BandEdges}
  \cup {-1, 0, 2 * 868350000}
States == {ON, OFF, ON_UPPER, TRUE_TEXT, EMPTY_TEXT}
Powers == ((MIN_POWER - EdgeMargin)..(MIN_POWER + EdgeMargin))
          \cup ((MAX_POWER - EdgeMargin)..(MAX_POWER + EdgeMargin))
Modulations == {LORA, FSK, OOK}
TransmitOn == {PyBool(TRUE), PyBool(FALSE), PyInt(0), PyInt(1), PyInt(2)}
\* 'H', U+00E9, U+4869
PayloadChars == {72, 233, 18537}
Payloads == UNION {[1..n -> PayloadChars] : n \in 0..MaxPayload}

\* ------------------------------------------------------------ specification

Next ==
  \/ \E p \in Ports : open(p)
  \/ close
  \/ \E h \in live : Finalize(h)
  \/ \E m \in Methods : call(m)
  \/ radio_get_frequency_mhz
  \/ find_and_open_enter
  \/ find_and_open_probe
  \/ find_and_open_exit
  \/ radio_continous_reception_enter
  \/ radio_continous_reception_read
  \/ LateArrive
  \/ \E line \in PacketLines : ModulePacket(line)
  \/ ModuleWatchdog

Spec == Init /\ [][Next]_vars

\* The callers that set parameters, on the first port: open, close and every
\* method that takes a parameter.
NextCmd ==
  \/ open(1)
  \/ close
  \/ \E h \in live : Finalize(h)
  \/ LateArrive
  \/ \E mode \in Modes, duration \in Durations : sys_sleep(mode, duration)
  \/ \E frequency \in Frequencies : radio_set_frequency(frequency)
  \/ \E twice \in FrequenciesMhz : radio_set_frequency_mhz(twice)
  \/ \E state \in States : radio_set_paboost(state)
  \/ \E power \in Powers : radio_set_power(power)
  \/ \E mode \in Modulations : radio_set_modulation(mode)
  \/ \E state \in States : radio_set_crc(state)
  \/ \E state \in States : radio_set_cw(state)
  \/ \E transmit_on \in TransmitOn : set_listen_before_talk(1, 2, 3, transmit_on)
  \/ \E data \in Payloads : radio_transmit(data, 1)

SpecCmd == Init /\ [][NextCmd]_vars

\* ------------------------------------------------------------------ claims

\* find_and_open has ended (its locals are still those of that call).
FaoEnded == pc = "idle" /\ last.op = "find_and_open"

ProbeHandles == {probes[i].h : i \in 1..Len(probes)} \ {None}

\* The call began on a Session that held no open handle: whatever is open, or
\* referenced, was opened by this call.
FaoFromClosed == live \subseteq ProbeHandles /\ serial \in ProbeHandles \cup {None}

\* C1: find_and_open tries the candidates in sorted order, one at a time, and
\* stops at the first one whose version response holds the identifier: the
\* Session is then Open on that port, every candidate opened before it is closed,
\* and no candidate after it is opened.
C1_FirstMatchWins ==
  /\ \A i, j \in 1..Len(ports) : i < j => ports[i] < ports[j]
  /\ \A k \in 1..Len(probes) :
       /\ probes[k].port = ports[k]
       /\ probes[k].others = {}
       /\ probes[k].outcome = "accepted" =>
            /\ k = Len(probes)
            /\ FaoEnded /\ last.exc = "none"
            /\ SessionOpen /\ serial = probes[k].h /\ hport[serial] = ports[k]
            /\ \A i \in 1..(k - 1) : probes[i].h # None => probes[i].h \notin live

\* C2: when no candidate answers with the identifier, find_and_open on a closed
\* Session raises "No LoRa module found." and leaves the Session Closed, holding
\* no handle.
C2_NotFoundRaises ==
  (FaoEnded /\ FaoFromClosed
     /\ \A k \in 1..Len(probes) : probes[k].outcome # "accepted")
  => (last.exc = "NoLoRaModuleFound" /\ serial = None /\ live = {})

\* C3: a candidate that was opened and not accepted is closed before the next
\* candidate is tried and before find_and_open ends.
C3_RejectedClosed ==
  \A i \in 1..Len(probes) :
    /\ probes[i].others = {}
    /\ (probes[i].h # None /\ probes[i].outcome # "accepted" /\ FaoEnded)
         => probes[i].h \notin live

\* C4: between calls the Session is closed with no open handle, or open with
\* exactly one open handle, the one it references; after close it references none.
C4_OneHandle ==
  pc = "idle" =>
    /\ (SessionOpen => live = {serial})
    /\ (~SessionOpen => live = {})
    /\ (last.op = "close" /\ last.exc = "none" => serial = None)

\* pyserial's exception for a port that is not open.
NotConnectedError == "PortNotOpenError"

\* C5: a command, or the streaming start, called on a Closed Session raises the
\* not-connected error and writes nothing.
C5_ClosedRejects ==
  (last.op \in Methods \cup {"radio_get_frequency_mhz", "radio_continous_reception"}
     /\ ~SessionOpen)
  => (last.exc = NotConnectedError /\ last.wrote = <<>>)

\* C6: close succeeds from every state and leaves the Session Closed.
C6_CloseAlwaysSucceeds ==
  last.op = "close" => (last.exc = "none" /\ ~SessionOpen)

\* C7: a command called while the receive loop runs is rejected: it writes no
\* line and takes nothing from the input buffer.
C7_NoCommandWhileReceiving ==
  (last.op \in Methods /\ last.rx) => (last.wrote = <<>> /\ last.took = <<>>)

\* C8: once the module has left continuous reception (stop, packet, watchdog) the
\* loop ends: the read under way returns, one more buffered line may be drained,
\* and no third read returns with the loop still running.
C8_LoopEnds == pc = "rx" => readsAfterExit <= 2

\* C9: the stop command's read_all takes no packet line that was buffered when
\* stop was called.
C9_StopKeepsPacket ==
  (last.op = "radio_stop_reception" /\ last.rx)
  => \A i \in 1..Len(last.took) : ~StartsWith(last.took[i], RADIO_RX)

\* The bytes a packet line carries: the hex digits after the prefix and a space.
PayloadOf(line) == FromHex(SubSeq(line, Len(RADIO_RX) + 2, Len(line) - Len(CRLF))).val

IsPacketLine(line) == StartsWith(line, RADIO_RX)

\* C10: the callback was called once for each line read that begins with the
\* prefix, in the order read, with that line's payload; never for another line.
C10_OneCallbackPerPacket ==
  LET packets == SelectSeq(linesRead, IsPacketLine)
  IN /\ Len(delivered) = Len(packets)
     /\ \A i \in 1..Len(delivered) : Utf8Decode(PayloadOf(packets[i])) = Ok(delivered[i])

\* ------------------------------------------- claims about the parameters

\* The setters that check their parameters.
ValidatedSetters ==
  {"sys_sleep", "radio_set_frequency", "radio_set_frequency_mhz", "radio_set_power",
   "radio_set_modulation", "radio_set_paboost", "radio_set_cw"}

\* C11: a call that a parameter check rejects writes no line, reads nothing and
\* leaves the Session, its input buffer and the module as they were.
C11_RejectedNoWire ==
  [][(last' # last /\ last'.op \in ValidatedSetters /\ last'.exc = "ValueError")
     => (/\ last'.wrote = <<>>
         /\ last'.took = <<>>
         /\ UNCHANGED <<serial, hport, live, rxbuf, late, pc, modRx>>)]_vars

\* A call was rejected on an open Session with a line waiting in its input buffer.
C11_Witness ==
  /\ last.op \in ValidatedSetters
  /\ last.exc = "ValueError"
  /\ SessionOpen
  /\ rxbuf # <<>>

\* The three closed intervals of the frequency validation, in Hz.
InBands(f) ==
  \/ (f >= 137000000 /\ f <= 175000000)
  \/ (f >= 410000000 /\ f <= 525000000)
  \/ (f >= 862000000 /\ f <= 1020000000)

\* C12: radio_set_frequency is rejected with ValueError exactly when the
\* frequency lies in none of the three closed intervals.
C12_FrequencyBands ==
  last.op = "radio_set_frequency"
  => ((last.exc # "ValueError") <=> InBands(last.args[1][1]))

\* The upper edge of the first band was accepted and sent.
C12_Witness ==
  /\ last.op = "radio_set_frequency"
  /\ last.args = <<IntArg(175000000)>>
  /\ last.wrote = <<radio_set_frequency_line(175000000)>>

\* C13: on an open Session set PA-boost, set CRC and set CW reject every state
\* but "on" and "off" with ValueError and write a line only for "on" or "off".
C13_OnOffOnly ==
  (last.op \in {"radio_set_paboost", "radio_set_crc", "radio_set_cw"} /\ SessionOpen)
  => IF last.args[1] \in {ON, OFF} THEN last.exc # "ValueError"
     ELSE last.exc = "ValueError" /\ last.wrote = <<>>

\* C14: sys_sleep is accepted exactly when the mode is "standby" or "backup" and
\* the duration is at least 1000.
C14_SleepValidation ==
  last.op = "sys_sleep"
  => ((last.exc # "ValueError")
      <=> (last.args[1] \in {STANDBY, BACKUP} /\ last.args[2][1] >= 1000))

\* sys_sleep("standby", 1000) was accepted and sent.
C14_Witness ==
  /\ last.op = "sys_sleep"
  /\ last.args = <<STANDBY, IntArg(1000)>>
  /\ last.wrote # <<>>

\* C15: set_listen_before_talk rejects nothing, and the last field of the line it
\* writes is "0" or "1".
C15_TransmitOnCoerced ==
  last.op = "set_listen_before_talk"
  => /\ last.exc # "ValueError"
     /\ last.wrote # <<>>
          => LET fields == Split(last.wrote[1])
             IN fields[Len(fields)] \in {<<48>>, <<49>>}

\* C16: the payload field of the line radio_transmit writes is lowercase hex, and
\* decoded the way the receive loop decodes it (hex to bytes to text) it is the
\* text that was passed.
C16_HexRoundTrip ==
  (last.op = "radio_transmit" /\ last.wrote # <<>>)
  => LET hex == Split(last.wrote[1])[3]
         bytes == FromHex(hex)
     IN /\ \A i \in 1..Len(hex) : hex[i] \in (48..57) \cup (97..102)
        /\ bytes.ok
        /\ Utf8Decode(bytes.val) = Ok(last.args[1])

Getters ==
  {"sys_get_version", "radio_get_frequency", "radio_get_frequency_mhz",
   "radio_get_power", "radio_get_modulation", "radio_get_crc", "radio_get_paboost",
   "get_listen_before_talk", "radio_get_signal_noise_ratio", "radio_get_packet_rssi"}

\* C18: a getter called on an open Session makes one exchange with the module:
\* it does not fail for want of one, and when it returns it has written one line.
C18_GettersQuery ==
  (last.op \in Getters /\ SessionOpen /\ ~last.rx)
  => (last.exc # "AttributeError" /\ (last.exc = "none" => Len(last.wrote) = 1))

\* The replies of a device to the commands of Methods.
CommandReplies == UNION {Replies(CommandLine(m)) : m \in Methods} \ {<<>>}

\* C19: what a command returns holds no reply to an earlier command: its read
\* takes no reply that was in the input buffer before the command was written.
C19_OnlyOwnReply ==
  (last.op \in Methods /\ ~last.rx)
  => \A i \in 1..Len(last.took) : last.took[i] \notin CommandReplies

\* C20: when find_and_open returns, the Session is open on a handle this call
\* opened and whose version response held the identifier.
C20_ReturnMeansFound ==
  (FaoEnded /\ last.exc = "none")
  => /\ SessionOpen
     /\ \E k \in 1..Len(probes) :
          probes[k].outcome = "accepted" /\ probes[k].h = serial

====
